---- MODULE Spec2Model ----
(***************************************************************************)
(* Model of the Freshdesk proxy (src/freshdesk/main.py): a FastAPI app     *)
(* with an unauthenticated POST /token and five routes under               *)
(* /v2/arta/proxy that depend on verify_token and forward to the upstream  *)
(* helpdesk API.  One request is in flight at a time (handlers share no    *)
(* state); a handler with a loop advances one upstream call per step.      *)
(* The upstream API is the environment: every response is chosen           *)
(* nondeterministically from small sets.                                   *)
(***************************************************************************)
EXTENDS Integers, Sequences, FiniteSets, TLC

VARIABLES
    known,             \* bearer tokens the caller knows
    heldAtStart,       \* whether the caller knew BEARER_TOKEN initially
    pc,                \* position of the request in flight
    req,               \* the request in flight (endpoint, token, input)
    calls,             \* upstream exchanges of the request in flight
    resp,              \* response of the request in flight
    page,              \* search_tickets_by_contact_number: page
    matched_contacts,  \* search_tickets_by_contact_number: matched_contacts
    results,           \* search_tickets_by_contact_number: results
    tickets,           \* delete_all_tickets: tickets
    deleted,           \* delete_all_tickets: deleted
    idx                \* position of the running for loop

vars == <<known, heldAtStart, pc, req, calls, resp, page, matched_contacts,
          results, tickets, deleted, idx>>

(***************************************************************************)
(* Bounds of the environment.                                              *)
(***************************************************************************)
MaxPages == 2      \* non-empty contact pages the upstream can serve
MaxPageLen == 2    \* contacts on one page
MaxTickets == 2    \* tickets in one upstream ticket listing

(***************************************************************************)
(* JSON values that may be null: a tag and a payload.                      *)
(***************************************************************************)
NULL == [t |-> "null", v |-> ""]
S(x) == [t |-> "str", v |-> x]
I(x) == [t |-> "int", v |-> x]
L(x) == [t |-> "list", v |-> x]

\* dict.get(k): the value under k, None when the key is absent
Get(d, k) == IF k \in DOMAIN d THEN d[k] ELSE NULL

\* str(v) of Python: None prints as "None", a string is itself, an int its
\* decimal numeral (the payload of an int is kept as its numeral)
Str(v) == IF v.t = "null" THEN "None" ELSE v.v

(***************************************************************************)
(* Configuration and authentication.                                       *)
(***************************************************************************)
BEARER_TOKEN == "mysecrettoken"
NoToken == ""
OtherToken == "wrong"

RouterEndpoints == {"create_ticket", "filter_tickets_by_status",
                    "search_tickets_by_contact_number", "add_note_to_ticket",
                    "delete_all_tickets"}

\* OAuth2PasswordBearer: a request without a bearer credential is refused
\* before verify_token runs
oauth2_scheme(token) == token # NoToken

verify_token_Any(token) == TRUE
\* verify_token: passes only for the configured token
verify_token(token) == token = BEARER_TOKEN

\* the dependency of the router, resolved before any handler body runs
Authorized(token) == oauth2_scheme(token) /\ verify_token(token)

\* a response of the proxy: status code, the kind of body (a JSON object,
\* a JSON array, the detail of an HTTPException, plain text), the body
Response(status_code, kind, body) ==
    [status |-> status_code, kind |-> kind, body |-> body]

\* raise HTTPException: FastAPI answers status_code with {"detail": detail}
HTTPException(status_code, detail) == Response(status_code, "detail", detail)

\* an exception no handler catches: Starlette answers 500
InternalServerError == Response(500, "text", "Internal Server Error")

Unauthorized(token) ==
    IF oauth2_scheme(token)
    THEN HTTPException(401, "Invalid or missing token")
    ELSE HTTPException(401, "Not authenticated")

NoResp == Response(0, "none", "")
NoReq == [ep |-> "none", token |-> NoToken]

\* one upstream exchange: the request sent and the response received
Call(method, url, arg, response) ==
    [method |-> method, url |-> url, arg |-> arg, response |-> response]

Init ==
    /\ known \in {{OtherToken}, {OtherToken, BEARER_TOKEN}}
    /\ heldAtStart = (BEARER_TOKEN \in known)
    /\ pc = "idle"
    /\ req = NoReq
    /\ calls = <<>>
    /\ resp = NoResp
    /\ page = 1
    /\ matched_contacts = <<>>
    /\ results = <<>>
    /\ tickets = <<>>
    /\ deleted = <<>>
    /\ idx = 1

\* tokens the caller can put in the Authorization header
Presentable == known \cup {NoToken}

\* request-local state of the handlers that the current request leaves alone
NoLocals ==
    /\ page' = 1
    /\ matched_contacts' = <<>>
    /\ results' = <<>>
    /\ tickets' = <<>>
    /\ deleted' = <<>>
    /\ idx' = 1

\* a request to a router endpoint whose dependency raises 401
Reject ==
    /\ pc = "idle"
    /\ \E ep \in RouterEndpoints, token \in Presentable :
         /\ ~Authorized(token)
         /\ req' = [ep |-> ep, token |-> token]
         /\ resp' = Unauthorized(token)
    /\ pc' = "done"
    /\ calls' = <<>>
    /\ NoLocals
    /\ UNCHANGED <<known, heldAtStart>>

\* POST /token
login ==
    /\ pc = "idle"
    /\ \E token \in Presentable :
         req' = [ep |-> "login", token |-> token]
    /\ resp' = Response(200, "object", [access_token |-> BEARER_TOKEN,
                                        token_type |-> "bearer"])
    /\ pc' = "done"
    /\ calls' = <<>>
    /\ NoLocals
    /\ UNCHANGED <<known, heldAtStart>>

(***************************************************************************)
(* create_ticket                                                           *)
(***************************************************************************)
OptionalFields == {"name", "email", "phone", "type", "tags", "cc_emails"}

\* a value for each optional field of TicketCreate when it is given
FieldValue(k) ==
    CASE k = "name" -> S("Ann")
      [] k = "email" -> S("ann@example.org")
      [] k = "phone" -> S("555")
      [] k = "type" -> S("Incident")
      [] OTHER -> L("[]")

\* TicketCreate: validated inputs, an optional field is a value or None
TicketCreate ==
    { [name |-> f["name"], email |-> f["email"], phone |-> f["phone"],
       subject |-> S("Help"), description |-> S("It broke"),
       status |-> I("2"), priority |-> I("1"),
       type |-> f["type"], tags |-> f["tags"], cc_emails |-> f["cc_emails"]] :
      f \in { g \in [OptionalFields -> {NULL} \cup {FieldValue(k) : k \in OptionalFields}] :
                \A k \in OptionalFields : g[k] \in {NULL, FieldValue(k)} } }

\* payload.dict(exclude_none=True)
exclude_none(payload) ==
    [k \in {j \in DOMAIN payload : payload[j] # NULL} |-> payload[k]]

\* bodies the upstream can answer POST /tickets with: the raw text and what
\* response.json() makes of it
TicketBody ==
    [text |-> "{\"id\":7,...}", parses |-> TRUE,
     json |-> [id |-> I("7"), subject |-> S("Help"),
               description |-> S("<div>It broke</div>"),
               description_text |-> S("It broke"),
               status |-> I("2"), priority |-> I("1"),
               requester_id |-> I("42"), created_at |-> S("2024-01-01")]]
ErrorBody ==
    [text |-> "{\"description\":\"Validation failed\"}", parses |-> TRUE,
     json |-> [description |-> S("Validation failed")]]
HtmlBody ==
    [text |-> "<html>Bad Gateway</html>", parses |-> FALSE, json |-> <<>>]

NoHeaders == [k \in {} |-> ""]
UpstreamHeaders ==
    {NoHeaders, "content-type" :> "application/json; charset=utf-8",
     "content-type" :> "application/json", "content-type" :> "text/html"}

\* responses of the upstream to POST /tickets
TicketPostResponses ==
    [status : {201, 400}, headers : UpstreamHeaders,
     body : {TicketBody, ErrorBody, HtmlBody}]

\* response.headers.get(k, default)
HeaderGet(headers, k, default) ==
    IF k \in DOMAIN headers THEN headers[k] ELSE default

\* "application/json" in ct, over the header values of the model
ContainsJson(ct) ==
    ct \in {"application/json", "application/json; charset=utf-8"}

Projection_SameName(res_data) ==
    [k \in {"id", "subject", "description", "status", "priority", "requester_id"} |->
       Get(res_data, k)]
\* the projection returned on success
Projection(res_data) ==
    [id |-> Get(res_data, "id"),
     subject |-> Get(res_data, "subject"),
     description |-> Get(res_data, "description_text"),
     status |-> Get(res_data, "status"),
     priority |-> Get(res_data, "priority"),
     requester_id |-> Get(res_data, "requester_id")]

create_ticket_result_NoCtypeCheck(response) ==
    IF response.status # 201
    THEN HTTPException(response.status, response.body.text)
    ELSE IF ~response.body.parses THEN InternalServerError
    ELSE Response(200, "object", Projection(response.body.json))
\* what create_ticket answers, given the upstream's response
create_ticket_result(response) ==
    IF ~ContainsJson(HeaderGet(response.headers, "content-type", ""))
    THEN Response(500, "object", [error |-> "Expected JSON but got HTML"])
    ELSE IF response.status # 201
    THEN HTTPException(response.status, response.body.text)
    ELSE IF ~response.body.parses THEN InternalServerError
    ELSE Response(200, "object", Projection(response.body.json))

create_ticket ==
    /\ pc = "idle"
    /\ \E token \in Presentable, payload \in TicketCreate,
          response \in TicketPostResponses :
         /\ Authorized(token)
         /\ req' = [ep |-> "create_ticket", token |-> token, payload |-> payload]
         /\ calls' = <<Call("POST", "/tickets", exclude_none(payload), response)>>
         /\ resp' = create_ticket_result(response)
    /\ pc' = "done"
    /\ NoLocals
    /\ UNCHANGED <<known, heldAtStart>>

(***************************************************************************)
(* filter_tickets_by_status                                                *)
(***************************************************************************)
\* status tokens, as character sequences
StatusTokens ==
    { <<"o","p","e","n">>, <<"O","P","E","N">>, <<"O","p","e","n">>,
      <<"c","l","o","s","e","d">>, <<"C","l","o","s","e","D">>,
      <<"p","e","n","d","i","n","g">>, <<"2">>, <<>> }

UpperToLower ==
    [c \in {"O","P","E","N","C","L","S","D"} |->
       CASE c = "O" -> "o" [] c = "P" -> "p" [] c = "E" -> "e" [] c = "N" -> "n"
         [] c = "C" -> "c" [] c = "L" -> "l" [] c = "S" -> "s" [] c = "D" -> "d"]

lower_Identity(s) == s
\* str.lower()
lower(s) ==
    [i \in 1..Len(s) |-> IF s[i] \in DOMAIN UpperToLower THEN UpperToLower[s[i]] ELSE s[i]]

status_map == (<<"o","p","e","n">> :> 2) @@ (<<"c","l","o","s","e","d">> :> 5)

\* f'"status:{fd_status_code}"'
StatusQuery(fd_status_code) == "\"status:" \o ToString(fd_status_code) \o "\""

SearchBody ==
    [text |-> "{\"results\":[],\"total\":0}", parses |-> TRUE,
     json |-> [results |-> L("[]"), total |-> I("0")]]

SearchResponses == [status : {200, 400, 500}, body : {SearchBody, ErrorBody}]

filter_tickets_by_status ==
    /\ pc = "idle"
    /\ \E token \in Presentable, status \in StatusTokens :
         /\ Authorized(token)
         /\ req' = [ep |-> "filter_tickets_by_status", token |-> token,
                    status |-> status]
         /\ IF lower(status) \notin DOMAIN status_map
            THEN /\ calls' = <<>>
                 /\ resp' = HTTPException(400, "Use 'open' or 'closed'.")
            ELSE \E response \in SearchResponses :
                   /\ calls' = <<Call("GET", "/search/tickets",
                                      [query |-> StatusQuery(status_map[lower(status)])],
                                      response)>>
                   /\ resp' = IF response.status # 200
                              THEN HTTPException(response.status, response.body.text)
                              ELSE Response(200, "object", response.body.json)
    /\ pc' = "done"
    /\ NoLocals
    /\ UNCHANGED <<known, heldAtStart>>

(***************************************************************************)
(* add_note_to_ticket                                                      *)
(***************************************************************************)
TicketIds == 1..MaxTickets
NoteBodies == {"<p>called back</p>", ""}
NoteResponses == [status : {201, 404}, body : {ErrorBody, HtmlBody}]

add_note_to_ticket ==
    /\ pc = "idle"
    /\ \E token \in Presentable, ticket_id \in TicketIds, note_body \in NoteBodies,
          response \in NoteResponses :
         /\ Authorized(token)
         /\ req' = [ep |-> "add_note_to_ticket", token |-> token,
                    ticket_id |-> ticket_id, note_body |-> note_body]
         /\ calls' = <<Call("POST", "/tickets/" \o ToString(ticket_id) \o "/notes",
                            [body |-> note_body, incoming |-> FALSE], response)>>
         /\ resp' = IF response.status # 201
                    THEN HTTPException(response.status, response.body.text)
                    ELSE Response(200, "object",
                                  [message |-> "Note added", note |-> note_body])
    /\ pc' = "done"
    /\ NoLocals
    /\ UNCHANGED <<known, heldAtStart>>

(***************************************************************************)
(* search_tickets_by_contact_number                                        *)
(***************************************************************************)
\* the contacts of the upstream; a key may be absent or hold null
ContactPool ==
    { [id |-> 1, name |-> S("Ann"), phone |-> S("555"), mobile |-> NULL],
      [id |-> 2, name |-> S("Bob"), mobile |-> NULL],
      [id |-> 3, name |-> S("Cy"), phone |-> S("777"), mobile |-> S("555")],
      [id |-> 4, phone |-> S("555"), mobile |-> S("555")] }

\* values of the query parameter number
Numbers == {"555", "None"}

PER_PAGE == 100

\* the contacts GETs among the exchanges, and the ticket GETs
ContactCalls == SelectSeq(calls, LAMBDA c : c.url = "/contacts")
TicketCalls == SelectSeq(calls, LAMBDA c : c.method = "GET" /\ c.url = "/tickets")

Range(s) == {s[i] : i \in 1..Len(s)}

\* contacts the listing has served so far in this request
Served == UNION {Range(c.response.body) : c \in Range(ContactCalls)}

\* pages of a listing: each contact is listed once, at most MaxPageLen to a
\* page, and no contacts are left after MaxPages pages
ContactPages(p) ==
    IF p > MaxPages THEN {<<>>}
    ELSE UNION { {s \in [1..n -> ContactPool \ Served] :
                    \A i, j \in 1..n : i # j => s[i] # s[j]} : n \in 0..MaxPageLen }

\* responses of the upstream to GET /contacts?page=p
ContactResponses(p) ==
    [status : {200}, body : ContactPages(p)]
      \cup {[status |-> 500, body |-> <<>>, text |-> "upstream error"]}

\* the test of the collecting loop
Matches(contact, number) ==
    Str(Get(contact, "phone")) = number \/ Str(Get(contact, "mobile")) = number

\* the ticket listings of the upstream: tickets 11, 12, ...
Ticket(i) ==
    IF i % 2 = 1 THEN [id |-> 10 + i, subject |-> S("Help")] ELSE [id |-> 10 + i]
TicketLists == {[i \in 1..n |-> Ticket(i)] : n \in 0..MaxTickets}

\* responses of the upstream to GET /tickets?requester_id=...
TicketListResponses ==
    [status : {200}, body : TicketLists]
      \cup {[status |-> 404, body |-> [i \in 1..1 |-> Ticket(i)]]}

\* the entries appended for one contact's tickets
Entries(contact, ts) ==
    [i \in 1..Len(ts) |->
       [ticket_id |-> ts[i].id,
        subject |-> Get(ts[i], "subject"),
        contact_name |-> Get(contact, "name"),
        mobile |-> Get(contact, "mobile"),
        phone |-> Get(contact, "phone")]]

\* the handler is entered: results = [], page = 1, matched_contacts = []
search_tickets_by_contact_number ==
    /\ pc = "idle"
    /\ \E token \in Presentable, number \in Numbers :
         /\ Authorized(token)
         /\ req' = [ep |-> "search_tickets_by_contact_number", token |-> token,
                    number |-> number]
    /\ pc' = "contacts"
    /\ calls' = <<>>
    /\ resp' = NoResp
    /\ NoLocals
    /\ UNCHANGED <<known, heldAtStart>>

\* what the handler returns once the while loop is left
AfterListing(matched) ==
    IF matched = <<>>
    THEN [pc |-> "done",
          resp |-> Response(200, "object", [message |-> "No contact found with that number."])]
    ELSE [pc |-> "tickets", resp |-> NoResp]

contacts_page_NoBreak ==
    /\ pc = "contacts"
    /\ \E response \in ContactResponses(page) :
         /\ calls' = Append(calls, Call("GET", "/contacts",
                                        [page |-> page, per_page |-> PER_PAGE], response))
         /\ IF response.status # 200
            THEN /\ resp' = HTTPException(response.status, response.text)
                 /\ pc' = "done"
                 /\ UNCHANGED <<page, matched_contacts>>
            ELSE IF response.body = <<>> /\ page > MaxPages
            THEN /\ pc' = AfterListing(matched_contacts).pc
                 /\ resp' = AfterListing(matched_contacts).resp
                 /\ UNCHANGED <<page, matched_contacts>>
            ELSE /\ matched_contacts' =
                      matched_contacts \o
                        SelectSeq(response.body, LAMBDA c : Matches(c, req.number))
                 /\ page' = page + 1
                 /\ UNCHANGED <<pc, resp>>
    /\ UNCHANGED <<known, heldAtStart, req, results, tickets, deleted, idx>>
\* one turn of the while loop: GET /contacts?page=page&per_page=100
contacts_page ==
    /\ pc = "contacts"
    /\ \E response \in ContactResponses(page) :
         /\ calls' = Append(calls, Call("GET", "/contacts",
                                        [page |-> page, per_page |-> PER_PAGE], response))
         /\ IF response.status # 200
            THEN /\ resp' = HTTPException(response.status, response.text)
                 /\ pc' = "done"
                 /\ UNCHANGED <<page, matched_contacts>>
            ELSE IF response.body = <<>>
            THEN /\ pc' = AfterListing(matched_contacts).pc
                 /\ resp' = AfterListing(matched_contacts).resp
                 /\ UNCHANGED <<page, matched_contacts>>
            ELSE /\ matched_contacts' =
                      matched_contacts \o
                        SelectSeq(response.body, LAMBDA c : Matches(c, req.number))
                 /\ page' = page + 1
                 /\ UNCHANGED <<pc, resp>>
    /\ UNCHANGED <<known, heldAtStart, req, results, tickets, deleted, idx>>

ticket_fetch_Fatal ==
    /\ pc = "tickets"
    /\ \E response \in TicketListResponses :
         LET contact == matched_contacts[idx] IN
         /\ calls' = Append(calls, Call("GET", "/tickets",
                                        [requester_id |-> contact.id], response))
         /\ IF response.status # 200
            THEN /\ resp' = HTTPException(response.status, "ticket fetch failed")
                 /\ pc' = "done"
                 /\ UNCHANGED <<results, idx>>
            ELSE /\ results' = results \o Entries(contact, response.body)
                 /\ idx' = idx + 1
                 /\ IF idx = Len(matched_contacts)
                    THEN pc' = "done" /\ resp' = Response(200, "array", results')
                    ELSE UNCHANGED <<pc, resp>>
    /\ UNCHANGED <<known, heldAtStart, req, page, matched_contacts, tickets, deleted>>
ticket_fetch_Prepend ==
    /\ pc = "tickets"
    /\ \E response \in TicketListResponses :
         LET contact == matched_contacts[idx] IN
         /\ calls' = Append(calls, Call("GET", "/tickets",
                                        [requester_id |-> contact.id], response))
         /\ results' = IF response.status # 200 THEN results
                       ELSE Entries(contact, response.body) \o results
         /\ idx' = idx + 1
         /\ IF idx = Len(matched_contacts)
            THEN pc' = "done" /\ resp' = Response(200, "array", results')
            ELSE UNCHANGED <<pc, resp>>
    /\ UNCHANGED <<known, heldAtStart, req, page, matched_contacts, tickets, deleted>>
\* one turn of the for loop over matched_contacts: GET /tickets?requester_id=
ticket_fetch ==
    /\ pc = "tickets"
    /\ \E response \in TicketListResponses :
         LET contact == matched_contacts[idx] IN
         /\ calls' = Append(calls, Call("GET", "/tickets",
                                        [requester_id |-> contact.id], response))
         /\ results' = IF response.status # 200 THEN results
                       ELSE results \o Entries(contact, response.body)
         /\ idx' = idx + 1
         /\ IF idx = Len(matched_contacts)
            THEN pc' = "done" /\ resp' = Response(200, "array", results')
            ELSE UNCHANGED <<pc, resp>>
    /\ UNCHANGED <<known, heldAtStart, req, page, matched_contacts, tickets, deleted>>

(***************************************************************************)
(* delete_all_tickets                                                      *)
(***************************************************************************)
\* listings of GET /tickets: distinct tickets in any order
DeleteListings ==
    UNION { {s \in [1..n -> {[id |-> 10 + i] : i \in TicketIds}] :
               \A i, j \in 1..n : i # j => s[i] # s[j]} : n \in 0..MaxTickets }

DeleteListResponses ==
    [status : {200}, body : DeleteListings] \cup {[status |-> 500, body |-> <<>>]}

\* the handler up to the for loop: GET /tickets
delete_all_tickets ==
    /\ pc = "idle"
    /\ \E token \in Presentable, response \in DeleteListResponses :
         /\ Authorized(token)
         /\ req' = [ep |-> "delete_all_tickets", token |-> token]
         /\ calls' = <<Call("GET", "/tickets", <<>>, response)>>
         /\ IF response.status # 200
            THEN /\ resp' = HTTPException(response.status, "Failed to fetch tickets")
                 /\ pc' = "done"
                 /\ tickets' = <<>>
            ELSE /\ tickets' = response.body
                 /\ IF response.body = <<>>
                    THEN pc' = "done" /\ resp' = Response(200, "object", [deleted_tickets |-> <<>>])
                    ELSE pc' = "deleting" /\ resp' = NoResp
    /\ page' = 1
    /\ matched_contacts' = <<>>
    /\ results' = <<>>
    /\ deleted' = <<>>
    /\ idx' = 1
    /\ UNCHANGED <<known, heldAtStart>>

delete_ticket_StopOnFailure ==
    /\ pc = "deleting"
    /\ \E del_resp \in [status : {204, 404}] :
         /\ calls' = Append(calls, Call("DELETE", "/tickets/" \o ToString(tickets[idx].id),
                                        <<>>, del_resp))
         /\ deleted' = IF del_resp.status = 204
                       THEN Append(deleted, tickets[idx].id) ELSE deleted
         /\ idx' = idx + 1
         /\ IF idx = Len(tickets) \/ del_resp.status # 204
            THEN pc' = "done" /\ resp' = Response(200, "object", [deleted_tickets |-> deleted'])
            ELSE UNCHANGED <<pc, resp>>
    /\ UNCHANGED <<known, heldAtStart, req, page, matched_contacts, results, tickets>>
\* one turn of the for loop over tickets: DELETE /tickets/{id}
delete_ticket ==
    /\ pc = "deleting"
    /\ \E del_resp \in [status : {204, 404}] :
         /\ calls' = Append(calls, Call("DELETE", "/tickets/" \o ToString(tickets[idx].id),
                                        <<>>, del_resp))
         /\ deleted' = IF del_resp.status = 204
                       THEN Append(deleted, tickets[idx].id) ELSE deleted
         /\ idx' = idx + 1
         /\ IF idx = Len(tickets)
            THEN pc' = "done" /\ resp' = Response(200, "object", [deleted_tickets |-> deleted'])
            ELSE UNCHANGED <<pc, resp>>
    /\ UNCHANGED <<known, heldAtStart, req, page, matched_contacts, results, tickets>>

\* the response reaches the caller, who keeps any access token in it
Respond ==
    /\ pc = "done"
    /\ known' = IF resp.kind = "object" /\ "access_token" \in DOMAIN resp.body
                THEN known \cup {resp.body.access_token}
                ELSE known
    /\ pc' = "idle"
    /\ req' = NoReq
    /\ resp' = NoResp
    /\ calls' = <<>>
    /\ NoLocals
    /\ UNCHANGED heldAtStart

Next ==
    \/ Reject
    \/ login
    \/ create_ticket
    \/ filter_tickets_by_status
    \/ add_note_to_ticket
    \/ search_tickets_by_contact_number
    \/ contacts_page
    \/ ticket_fetch
    \/ delete_all_tickets
    \/ delete_ticket
    \/ Respond

Spec == Init /\ [][Next]_vars

\* the event loop resumes a handler whenever the upstream has answered
LiveSpec ==
    Spec /\ WF_vars(contacts_page) /\ WF_vars(ticket_fetch) /\ WF_vars(delete_ticket)

(***************************************************************************)
(* Properties.                                                             *)
(***************************************************************************)
\* the request in flight has been answered
Answered(ep) == pc = "done" /\ req.ep = ep

\* the request in flight passed the dependency and its handler has returned
Handled(ep) == Answered(ep) /\ req.token = BEARER_TOKEN

\* C1: a request to any of the five router endpoints whose presented token
\* differs from BEARER_TOKEN is answered 401 and issues no upstream call.
C1_TokenGuard ==
    (pc # "idle" /\ req.ep \in RouterEndpoints /\ req.token # BEARER_TOKEN)
      => (pc = "done" /\ resp.status = 401 /\ calls = <<>>)

C1_Witness ==
    /\ Answered("delete_all_tickets")
    /\ req.token = OtherToken
    /\ resp.status = 401

\* the upstream response to the POST of create_ticket
PostResponse == calls[1].response
PostIsJson == ContainsJson(HeaderGet(PostResponse.headers, "content-type", ""))

\* C2 (as stated): whenever the upstream POST response is non-201 or not
\* JSON, the caller receives the upstream status and the upstream body.
C2_Original ==
    (Handled("create_ticket")
       /\ (PostResponse.status # 201 \/ ~PostIsJson \/ ~PostResponse.body.parses))
      => (resp.status = PostResponse.status /\ resp.body = PostResponse.body.text)

\* C2 (amended): a response with a JSON content type and a non-201 status
\* is surfaced as the upstream status with the upstream body as the detail;
\* a response without a JSON content type is answered 500 with a fixed
\* error object, whatever the upstream status, 201 included.
C2_Amended ==
    Handled("create_ticket")
      => /\ (PostIsJson /\ PostResponse.status # 201)
              => /\ resp.status = PostResponse.status
                 /\ resp.kind = "detail"
                 /\ resp.body = PostResponse.body.text
         /\ ~PostIsJson
              => /\ resp.status = 500
                 /\ resp.kind = "object"
                 /\ resp.body = [error |-> "Expected JSON but got HTML"]

C2_Witness ==
    /\ Handled("create_ticket")
    /\ ~PostIsJson
    /\ PostResponse.status = 201
    /\ resp.status = 500

SixKeys == {"id", "subject", "description", "status", "priority", "requester_id"}

\* exactly the non-null fields of the input went out in one POST /tickets
ForwardedNonNull ==
    /\ Len(calls) = 1
    /\ calls[1].method = "POST"
    /\ calls[1].url = "/tickets"
    /\ DOMAIN calls[1].arg = {k \in DOMAIN req.payload : req.payload[k].t # "null"}
    /\ \A k \in DOMAIN calls[1].arg : calls[1].arg[k] = req.payload[k]

PostSucceeded ==
    PostResponse.status = 201 /\ PostIsJson /\ PostResponse.body.parses

\* C3 (as stated): the non-null input fields are forwarded in one POST, and
\* on 201 with a JSON body each of the six keys of the answer carries the
\* same-named field of the upstream body.
C3_Original ==
    Handled("create_ticket")
      => /\ ForwardedNonNull
         /\ PostSucceeded
              => /\ resp.status = 200
                 /\ DOMAIN resp.body = SixKeys
                 /\ \A k \in SixKeys : resp.body[k] = Get(PostResponse.body.json, k)

\* C3 (amended): as stated, except that the key description carries the
\* upstream field description_text; a field the upstream body lacks is null.
C3_Amended ==
    Handled("create_ticket")
      => /\ ForwardedNonNull
         /\ PostSucceeded
              => /\ resp.status = 200
                 /\ DOMAIN resp.body = SixKeys
                 /\ \A k \in SixKeys \ {"description"} :
                      resp.body[k] = Get(PostResponse.body.json, k)
                 /\ resp.body["description"] =
                      Get(PostResponse.body.json, "description_text")

C3_Witness ==
    /\ Handled("create_ticket")
    /\ PostSucceeded
    /\ PostResponse.body = TicketBody
    /\ req.payload.name = NULL
    /\ req.payload.phone # NULL
    /\ resp.status = 200

\* a token that reads "open" (resp. "closed") when case is ignored
ReadsOpen(s) ==
    /\ Len(s) = 4
    /\ s[1] \in {"o", "O"} /\ s[2] \in {"p", "P"}
    /\ s[3] \in {"e", "E"} /\ s[4] \in {"n", "N"}
ReadsClosed(s) ==
    /\ Len(s) = 6
    /\ s[1] \in {"c", "C"} /\ s[2] \in {"l", "L"} /\ s[3] \in {"o", "O"}
    /\ s[4] \in {"s", "S"} /\ s[5] \in {"e", "E"} /\ s[6] \in {"d", "D"}

SearchedWith(query) ==
    /\ Len(calls) = 1
    /\ calls[1].method = "GET"
    /\ calls[1].url = "/search/tickets"
    /\ calls[1].arg = [query |-> query]

\* C4: "open" maps to 2 and "closed" to 5 whatever the case, the upstream
\* query embeds that code, and any other token is answered 400 without an
\* upstream call.
C4_StatusMap ==
    Handled("filter_tickets_by_status")
      => IF ReadsOpen(req.status) THEN SearchedWith("\"status:2\"")
         ELSE IF ReadsClosed(req.status) THEN SearchedWith("\"status:5\"")
         ELSE resp.status = 400 /\ calls = <<>>

C4_Witness ==
    /\ Handled("filter_tickets_by_status")
    /\ req.status = <<"C","l","o","s","e","D">>
    /\ SearchedWith("\"status:5\"")
    /\ resp.status = 200

\* every contacts page of the request in flight was answered 200 and the
\* while loop has been left
ListingComplete ==
    /\ req.ep = "search_tickets_by_contact_number"
    /\ req.token = BEARER_TOKEN
    /\ pc \in {"tickets", "done"}
    /\ \A c \in Range(ContactCalls) : c.response.status = 200

\* the field k of the contact is present, not null, and is the number
Holds(contact, k, number) ==
    /\ k \in DOMAIN contact
    /\ contact[k].t # "null"
    /\ contact[k].v = number

BothMissing(contact) ==
    Get(contact, "phone").t = "null" /\ Get(contact, "mobile").t = "null"

\* C5 (as stated): once the listing completes, the collected contacts are
\* exactly the served contacts whose phone or mobile holds the number, and a
\* contact with neither phone nor mobile is never collected.
C5_Claim ==
    ListingComplete
      => /\ Range(matched_contacts) =
              {c \in Served : Holds(c, "phone", req.number) \/ Holds(c, "mobile", req.number)}
         /\ \A c \in Range(matched_contacts) : ~BothMissing(c)

\* the ticket fetch issued for the i-th matched contact
Fetch(i) == TicketCalls[i].response

\* entries of the answer that stem from ticket t of contact c
IsEntryOf(e, c, t) ==
    /\ e.ticket_id = t.id
    /\ e.contact_name = Get(c, "name")
    /\ e.mobile = Get(c, "mobile")
    /\ e.phone = Get(c, "phone")

\* C6: a non-200 ticket fetch is not fatal: the request is answered 200, a
\* fetch was issued for every matched contact in turn, every ticket of a
\* fetch answered 200 is in the result, and every entry of the result stems
\* from a fetch answered 200.
C6_FetchFailureSkipped ==
    (ListingComplete /\ pc = "done" /\ matched_contacts # <<>>)
      => /\ resp.status = 200
         /\ resp.kind = "array"
         /\ Len(TicketCalls) = Len(matched_contacts)
         /\ \A i \in 1..Len(matched_contacts) :
              /\ TicketCalls[i].arg = [requester_id |-> matched_contacts[i].id]
              /\ Fetch(i).status = 200
                   => \A t \in Range(Fetch(i).body) :
                        \E e \in Range(resp.body) : IsEntryOf(e, matched_contacts[i], t)
         /\ \A e \in Range(resp.body) :
              \E i \in 1..Len(matched_contacts) :
                /\ Fetch(i).status = 200
                /\ \E t \in Range(Fetch(i).body) : IsEntryOf(e, matched_contacts[i], t)

C6_Witness ==
    /\ ListingComplete /\ pc = "done"
    /\ Len(matched_contacts) >= 2
    /\ Len(TicketCalls) = Len(matched_contacts)
    /\ Fetch(1).status # 200
    /\ Fetch(2).status = 200
    /\ Len(resp.body) > 0

\* C7 (as stated): whenever the listing succeeds the answer is a list, empty
\* when no contact matched.
C7_Original ==
    (ListingComplete /\ pc = "done")
      => /\ resp.status = 200
         /\ resp.kind = "array"
         /\ matched_contacts = <<>> => Len(resp.body) = 0

\* number of entries the fetches before the i-th contributed
RECURSIVE Offset(_)
Offset(i) ==
    IF i <= 1 THEN 0
    ELSE Offset(i - 1)
           + (IF Fetch(i - 1).status = 200 THEN Len(Fetch(i - 1).body) ELSE 0)

EntryKeys == {"ticket_id", "subject", "contact_name", "mobile", "phone"}

\* C7 (amended): whenever the listing succeeds and at least one contact
\* matched, the answer is a list with exactly one entry of the five keys per
\* ticket of a fetch answered 200, ordered by matched contact and then by
\* ticket; when no contact matched, the answer is the object
\* {"message": "No contact found with that number."}.
C7_Amended ==
    (ListingComplete /\ pc = "done")
      => /\ resp.status = 200
         /\ matched_contacts = <<>>
              => /\ resp.kind = "object"
                 /\ resp.body = [message |-> "No contact found with that number."]
                 /\ TicketCalls = <<>>
         /\ matched_contacts # <<>>
              => /\ resp.kind = "array"
                 /\ Len(resp.body) = Offset(Len(matched_contacts) + 1)
                 /\ \A i \in 1..Len(matched_contacts) :
                      Fetch(i).status = 200 =>
                        \A j \in 1..Len(Fetch(i).body) :
                          LET e == resp.body[Offset(i) + j] IN
                          /\ DOMAIN e = EntryKeys
                          /\ IsEntryOf(e, matched_contacts[i], Fetch(i).body[j])
                          /\ e.subject = Get(Fetch(i).body[j], "subject")

C7_WitnessNoMatch ==
    /\ ListingComplete /\ pc = "done"
    /\ Served # {}
    /\ matched_contacts = <<>>

\* the DELETE exchanges of delete_all_tickets
DeleteCalls == SelectSeq(calls, LAMBDA c : c.method = "DELETE")

\* the IDs, in order, of the listed tickets whose DELETE was answered 204
RECURSIVE Deleted204(_)
Deleted204(n) ==
    IF n = 0 THEN <<>>
    ELSE IF DeleteCalls[n].response.status = 204
    THEN Append(Deleted204(n - 1), calls[1].response.body[n].id)
    ELSE Deleted204(n - 1)

\* C8: when the listing is 200, one DELETE per listed ticket is issued in
\* listing order, failures neither stop the loop nor make an error answer,
\* and deleted_tickets is the IDs answered 204 in listing order; when the
\* listing is not 200, no DELETE is issued and the upstream status returned.
C8_BulkDelete ==
    (req.ep = "delete_all_tickets" /\ req.token = BEARER_TOKEN)
      => LET listing == calls[1].response IN
         IF listing.status = 200
         THEN /\ \A i \in 1..Len(DeleteCalls) :
                   /\ i <= Len(listing.body)
                   /\ DeleteCalls[i].url = "/tickets/" \o ToString(listing.body[i].id)
              /\ Len(calls) = 1 + Len(DeleteCalls)
              /\ pc = "done"
                   => /\ Len(DeleteCalls) = Len(listing.body)
                      /\ resp.status = 200
                      /\ resp.body = [deleted_tickets |-> Deleted204(Len(DeleteCalls))]
              /\ pc # "done" => Len(DeleteCalls) < Len(listing.body)
         ELSE /\ pc = "done"
              /\ Len(calls) = 1
              /\ resp.status = listing.status

C8_Witness ==
    /\ Handled("delete_all_tickets")
    /\ Len(DeleteCalls) = 2
    /\ DeleteCalls[1].response.status = 404
    /\ DeleteCalls[2].response.status = 204
    /\ calls[1].response.body[1].id > calls[1].response.body[2].id
    /\ Len(resp.body.deleted_tickets) = 1

\* a contacts page that ends the loop: non-200, or empty
EndsListing(c) == c.response.status # 200 \/ c.response.body = <<>>

C9_Safety ==
    (req.ep = "search_tickets_by_contact_number" /\ req.token = BEARER_TOKEN)
      => /\ \A i \in 1..Len(ContactCalls) :
              /\ ContactCalls[i].arg = [page |-> i, per_page |-> 100]
              /\ calls[i] = ContactCalls[i]
              /\ EndsListing(ContactCalls[i]) => i = Len(ContactCalls)
         /\ (ContactCalls # <<>> /\ EndsListing(ContactCalls[Len(ContactCalls)]))
              <=> pc # "contacts"
         /\ (ContactCalls # <<>>
               /\ ContactCalls[Len(ContactCalls)].response.status # 200)
              => /\ pc = "done"
                 /\ resp.status = ContactCalls[Len(ContactCalls)].response.status
                 /\ TicketCalls = <<>>

\* C9: the contacts loop requests pages 1, 2, 3, ... with per_page 100,
\* each once and in order; it stops right after the first empty or non-200
\* page, answering a non-200 page with that status and no ticket fetch; and
\* once entered, the loop is left.
C9_Pagination ==
    /\ []C9_Safety
    /\ (pc = "contacts") ~> (pc # "contacts")

C9_Witness ==
    /\ ListingComplete
    /\ Len(ContactCalls) = 3
    /\ ContactCalls[3].response.body = <<>>
    /\ matched_contacts # <<>>

\* C10 (as stated): a caller who does not hold BEARER_TOKEN at the start
\* never causes an upstream call.
C10_Claim == ~heldAtStart => calls = <<>>
====
